---- MODULE Spec2Model ----
(***************************************************************************)
(* Dynamic-DNS worker (src/src/index.ts, lines 1-210): the fetch boundary, *)
(* handleRequest, parseBasicAuthentication, parseSearchParams and          *)
(* updateDNSRecord, with the DNS provider as the environment.              *)
(*                                                                         *)
(* A string is a sequence of characters.  A printable ASCII character is   *)
(* the one-character string itself; any other code point n is the string   *)
(* "U+n" (n in decimal), so <<"a", "U+1">> is "a\x01"; the backtick, which  *)
(* no TLA+ string may hold, is "U+96".                                     *)
(***************************************************************************)
EXTENDS Integers, Sequences, FiniteSets, TLC

VARIABLES
    pc,        \* pc[r]: the await the handler of request r is suspended at
    request,   \* request[r]: the request handed to fetch
    frame,     \* frame[r]: the locals of updateDNSRecord for request r
    calls,     \* calls[r]: the provider operations invoked for r, in order
    replies,   \* replies[r]: what the provider answered to those calls
    response   \* response[r]: the Response fetch returned for r

vars == <<pc, request, frame, calls, replies, response>>

---------------------------------------------------------------------------
(* Characters and strings *)

Printable ==
    <<" ", "!", "\"", "#", "$", "%", "&", "'", "(", ")", "*", "+", ",", "-", ".", "/", "0", "1", "2", "3", "4", "5", "6", "7", "8", "9", ":", ";", "<", "=", ">", "?", "@", "A", "B", "C", "D", "E", "F", "G", "H", "I", "J", "K", "L", "M", "N", "O", "P", "Q", "R", "S", "T", "U", "V", "W", "X", "Y", "Z", "[", "\\", "]", "^", "_", "U+96", "a", "b", "c", "d", "e", "f", "g", "h", "i", "j", "k", "l", "m", "n", "o", "p", "q", "r", "s", "t", "u", "v", "w", "x", "y", "z", "{", "|", "}", "~">>

\* String.fromCharCode / String.fromCodePoint of one code point
CharOf(n) == IF n \in 32..126 THEN Printable[n - 31] ELSE "U+" \o ToString(n)

\* the code points below 256, where charCodeAt is looked up
Latin1 == 0..255

\* String.prototype.charCodeAt(0) of a one-character string (code below 256)
CharCodeAt(c) == CHOOSE n \in Latin1 : CharOf(n) = c

\* the code point substituted for bytes that are not UTF-8
ReplacementChar == CharOf(65533)

\* String.prototype.indexOf, zero-based, -1 when absent
IndexOf(s, c) ==
    IF \E i \in 1..Len(s) : s[i] = c
    THEN (CHOOSE i \in 1..Len(s) : s[i] = c /\ \A j \in 1..(i - 1) : s[j] # c) - 1
    ELSE -1

\* String.prototype.substring(from, to), zero-based, to exclusive
Substring(s, from, to) == SubSeq(s, from + 1, to)

\* String.prototype.split(sep) for a one-character separator
RECURSIVE Split(_, _)
Split(s, sep) ==
    LET i == IndexOf(s, sep)
    IN  IF i = -1 THEN <<s>>
        ELSE <<Substring(s, 0, i)>> \o Split(Substring(s, i + 1, Len(s)), sep)

\* x || y on strings: the empty string (like null and undefined) is falsy
Or(x, y) == IF x # <<>> THEN x ELSE y

\* whether sub occurs in s (String.prototype.includes)
Includes(s, sub) ==
    \E i \in 0..(Len(s) - Len(sub)) : Substring(s, i, i + Len(sub)) = sub

---------------------------------------------------------------------------
(* atob: the forgiving-base64 decode of the HTML standard *)

Base64Alphabet ==
    <<"A", "B", "C", "D", "E", "F", "G", "H", "I", "J", "K", "L", "M", "N", "O", "P", "Q", "R", "S", "T", "U", "V", "W", "X", "Y", "Z", "a", "b", "c", "d", "e", "f", "g", "h", "i", "j", "k", "l", "m", "n", "o", "p", "q", "r", "s", "t", "u", "v", "w", "x", "y", "z", "0", "1", "2", "3", "4", "5", "6", "7", "8", "9", "+", "/">>

Base64Value(c) == (CHOOSE i \in 1..64 : Base64Alphabet[i] = c) - 1

IsBase64Char(c) == \E i \in 1..64 : Base64Alphabet[i] = c

AsciiWhitespace == {CharOf(9), CharOf(10), CharOf(12), CharOf(13), " "}

\* btoa of a string of code points below 256 (what the clients and the tests send)
RECURSIVE btoa(_)
btoa(s) ==
    LET b(i) == CharCodeAt(s[i])
        e(v) == Base64Alphabet[v + 1]
    IN  IF Len(s) = 0 THEN <<>>
        ELSE IF Len(s) = 1
        THEN <<e(b(1) \div 4), e((b(1) % 4) * 16), "=", "=">>
        ELSE IF Len(s) = 2
        THEN <<e(b(1) \div 4), e((b(1) % 4) * 16 + b(2) \div 16),
               e((b(2) % 16) * 4), "=">>
        ELSE <<e(b(1) \div 4), e((b(1) % 4) * 16 + b(2) \div 16),
               e((b(2) % 16) * 4 + b(3) \div 64), e(b(3) % 64)>>
             \o btoa(SubSeq(s, 4, Len(s)))

\* the bytes of a run of base64 characters: 4 characters give 3 bytes, a
\* final group of 2 or 3 characters gives 1 or 2 bytes (spare bits dropped)
RECURSIVE Base64Bytes(_)
Base64Bytes(s) ==
    LET v(i) == Base64Value(s[i])
    IN  IF Len(s) < 2 THEN <<>>
        ELSE IF Len(s) = 2
        THEN <<v(1) * 4 + v(2) \div 16>>
        ELSE IF Len(s) = 3
        THEN <<v(1) * 4 + v(2) \div 16, (v(2) % 16) * 16 + v(3) \div 4>>
        ELSE <<v(1) * 4 + v(2) \div 16, (v(2) % 16) * 16 + v(3) \div 4,
               (v(3) % 4) * 64 + v(4)>>
             \o Base64Bytes(SubSeq(s, 5, Len(s)))

\* atob(data) followed by Uint8Array.from(..., c => c.charCodeAt(0)):
\* [ok |-> FALSE] when atob throws InvalidCharacterError
atob(data) ==
    LET stripped == SelectSeq(data, LAMBDA c : c \notin AsciiWhitespace)
        n == Len(stripped)
        unpadded ==
            IF n % 4 = 0 /\ n >= 2 /\ stripped[n] = "=" /\ stripped[n - 1] = "="
            THEN SubSeq(stripped, 1, n - 2)
            ELSE IF n % 4 = 0 /\ n >= 1 /\ stripped[n] = "="
            THEN SubSeq(stripped, 1, n - 1)
            ELSE stripped
    IN  IF Len(unpadded) % 4 = 1 \/ \E i \in 1..Len(unpadded) : ~IsBase64Char(unpadded[i])
        THEN [ok |-> FALSE, bytes |-> <<>>]
        ELSE [ok |-> TRUE, bytes |-> Base64Bytes(unpadded)]

---------------------------------------------------------------------------
(* new TextDecoder().decode(buffer).normalize() *)

\* the UTF-8 decoder of the Encoding standard: cp is the code point being
\* assembled, left the continuation bytes still needed, lower..upper the
\* range the next continuation byte must lie in; a byte that fits nowhere
\* gives U+FFFD and, inside a sequence, is read again as a first byte
RECURSIVE Utf8Scan(_, _, _, _, _)
Utf8Scan(bytes, cp, left, lower, upper) ==
    IF Len(bytes) = 0
    THEN IF left = 0 THEN <<>> ELSE <<ReplacementChar>>
    ELSE LET b == Head(bytes)
             rest == Tail(bytes)
         IN  IF left = 0
             THEN IF b < 128
                  THEN <<CharOf(b)>> \o Utf8Scan(rest, 0, 0, 128, 191)
                  ELSE IF b \in 194..223
                  THEN Utf8Scan(rest, b - 192, 1, 128, 191)
                  ELSE IF b \in 224..239
                  THEN Utf8Scan(rest, b - 224, 2,
                                IF b = 224 THEN 160 ELSE 128,
                                IF b = 237 THEN 159 ELSE 191)
                  ELSE IF b \in 240..244
                  THEN Utf8Scan(rest, b - 240, 3,
                                IF b = 240 THEN 144 ELSE 128,
                                IF b = 244 THEN 143 ELSE 191)
                  ELSE <<ReplacementChar>> \o Utf8Scan(rest, 0, 0, 128, 191)
             ELSE IF b \notin lower..upper
             THEN <<ReplacementChar>> \o Utf8Scan(bytes, 0, 0, 128, 191)
             ELSE IF left = 1
             THEN <<CharOf(cp * 64 + (b - 128))>> \o Utf8Scan(rest, 0, 0, 128, 191)
             ELSE Utf8Scan(rest, cp * 64 + (b - 128), left - 1, 128, 191)

\* new TextDecoder().decode(buffer): a leading byte-order mark (EF BB BF) is
\* dropped, the rest is decoded with replacement; a code point above
\* U+FFFF is one character here
Utf8Decode(bytes) ==
    IF Len(bytes) >= 3 /\ SubSeq(bytes, 1, 3) = <<239, 187, 191>>
    THEN Utf8Scan(SubSeq(bytes, 4, Len(bytes)), 0, 0, 128, 191)
    ELSE Utf8Scan(bytes, 0, 0, 128, 191)

\* the canonical compositions among the characters of this model:
\* e + U+0301 (combining acute) composes to U+00E9
Compositions == {<<"e", CharOf(769), CharOf(233)>>}

\* String.prototype.normalize() (NFC) over those characters
RECURSIVE Normalize(_)
Normalize(s) ==
    IF Len(s) < 2 THEN s
    ELSE IF \E t \in Compositions : t[1] = s[1] /\ t[2] = s[2]
    THEN LET t == CHOOSE t \in Compositions : t[1] = s[1] /\ t[2] = s[2]
         IN  <<t[3]>> \o Normalize(SubSeq(s, 3, Len(s)))
    ELSE <<s[1]>> \o Normalize(Tail(s))

\* the class written without DEL: /[\0-\x1F]/
ControlChars_NoDel == {CharOf(n) : n \in 0..31}

\* CTL = %x00-1F / %x7F, the class /[\0-\x1F\x7F]/
ControlChars == {CharOf(n) : n \in (0..31) \cup {127}}

---------------------------------------------------------------------------
(* Exceptions and responses *)

\* a thrown value as the boundary reads it: status 0 and the empty string
\* stand for a missing (falsy) status, statusText, message or stack
\* the class written with the status of BadRequestException
UnauthorizedException_Status400(message) ==
    [status |-> 400, statusText |-> <<"U", "n", "a", "u", "t", "h", "o", "r", "i", "z", "e", "d">>,
     message |-> message, stack |-> <<>>]

UnauthorizedException(message) ==
    [status |-> 401, statusText |-> <<"U", "n", "a", "u", "t", "h", "o", "r", "i", "z", "e", "d">>,
     message |-> message, stack |-> <<>>]

BadRequestException(message) ==
    [status |-> 400, statusText |-> <<"B", "a", "d", " ", "R", "e", "q", "u", "e", "s", "t">>,
     message |-> message, stack |-> <<>>]

\* the DOMException atob throws on data that is not base64
InvalidCharacterError ==
    [status |-> 0, statusText |-> <<>>,
     message |-> <<"I", "n", "v", "a", "l", "i", "d", " ", "c", "h", "a", "r", "a", "c", "t", "e", "r">>,
     stack |-> <<"I", "n", "v", "a", "l", "i", "d", "C", "h", "a", "r", "a", "c", "t", "e", "r", "E", "r", "r", "o", "r", ":", " ", "I", "n", "v", "a", "l", "i", "d", " ", "c", "h", "a", "r", "a", "c", "t", "e", "r">>]

\* the JavaScript value null, where a string is expected
null == <<"null">>

\* a Response built with no headers
NoHeaders == [name \in {} |-> <<>>]

\* the success response built without its Cache-Control header
GoodResponse_Cacheable ==
    [status |-> 200, statusText |-> <<>>, body |-> <<"g", "o", "o", "d">>,
     headers |-> ("Content-Type" :> <<"t", "e", "x", "t", "/", "p", "l", "a", "i", "n", ";", "c", "h", "a", "r", "s", "e", "t", "=", "U", "T", "F", "-", "8">>)]

\* new Response('good', {status: 200, headers: {...}})
GoodResponse ==
    [status |-> 200, statusText |-> <<>>, body |-> <<"g", "o", "o", "d">>,
     headers |-> ("Content-Type" :> <<"t", "e", "x", "t", "/", "p", "l", "a", "i", "n", ";", "c", "h", "a", "r", "s", "e", "t", "=", "U", "T", "F", "-", "8">>)
                 @@ ("Cache-Control" :> <<"n", "o", "-", "s", "t", "o", "r", "e">>)]

\* new Response(null, {status: 204})
NoContentResponse ==
    [status |-> 204, statusText |-> <<>>, body |-> <<>>, headers |-> NoHeaders]

\* the fall-through response built with the status alone
NotFoundResponse_NoBody ==
    [status |-> 404, statusText |-> <<>>, body |-> <<>>, headers |-> NoHeaders]

\* new Response('Not Found.', {status: 404})
NotFoundResponse ==
    [status |-> 404, statusText |-> <<>>, body |-> <<"N", "o", "t", " ", "F", "o", "u", "n", "d", ".">>,
     headers |-> NoHeaders]

\* the catch block of fetch: the Response built from a thrown value
ErrorResponse(err) ==
    LET message == Or(err.message, Or(err.stack, <<"U", "n", "k", "n", "o", "w", "n", " ", "E", "r", "r", "o", "r">>))
    IN  [status |-> IF err.status # 0 THEN err.status ELSE 500,
         statusText |-> Or(err.statusText, null),
         body |-> message,
         headers |-> ("Content-Type" :> <<"t", "e", "x", "t", "/", "p", "l", "a", "i", "n", ";", "c", "h", "a", "r", "s", "e", "t", "=", "U", "T", "F", "-", "8">>)
                     @@ ("Cache-Control" :> <<"n", "o", "-", "s", "t", "o", "r", "e">>)
                     @@ ("Content-Length" :> Len(message))
                     @@ ("X-Content-Type-Options" :> <<"n", "o", "s", "n", "i", "f", "f">>)
                     @@ ("X-Frame-Options" :> <<"D", "E", "N", "Y">>)
                     @@ ("Strict-Transport-Security" :>
                             <<"m", "a", "x", "-", "a", "g", "e", "=", "6", "3", "0", "7", "2", "0", "0", "0", ";", " ", "i", "n", "c", "l", "u", "d", "e", "S", "u", "b", "D", "o", "m", "a", "i", "n", "s", ";", " ", "p", "r", "e", "l", "o", "a", "d">>)]

\* how a synchronous stretch of the handler ends
Throw(err) == [kind |-> "throw", err |-> err]
Return(value) == [kind |-> "return", value |-> value]

---------------------------------------------------------------------------
(* Credentials and query parameters *)

\* request.headers.has(name)
HeadersHas(req, name) == name \in DOMAIN req.headers

\* url.searchParams.get(name): null (falsy, here the empty string) when absent
SearchParamsGet(req, name) ==
    IF name \in DOMAIN req.searchParams THEN req.searchParams[name] ELSE <<>>

\* the decoded value taken as it is when it has no colon
parseBasicAuthentication_NoColonCheck(req) ==
    LET Authorization == req.headers["Authorization"]
        parts == Split(Authorization, " ")
        encoded == IF Len(parts) >= 2 THEN parts[2] ELSE <<"u", "n", "d", "e", "f", "i", "n", "e", "d">>
        buffer == atob(encoded)
        decoded == Normalize(Utf8Decode(buffer.bytes))
        index == IndexOf(decoded, ":")
    IN  IF ~buffer.ok THEN Throw(InvalidCharacterError)
        ELSE IF \E i \in 1..Len(decoded) : decoded[i] \in ControlChars
        THEN Throw(UnauthorizedException(<<"I", "n", "v", "a", "l", "i", "d", " ", "a", "u", "t", "h", "o", "r", "i", "z", "a", "t", "i", "o", "n", " ", "v", "a", "l", "u", "e", ".">>))
        ELSE Return([username |-> Substring(decoded, 0, index),
                     password |-> Substring(decoded, index + 1, Len(decoded))])

\* the decoded value split at its last colon
parseBasicAuthentication_LastColon(req) ==
    LET Authorization == req.headers["Authorization"]
        parts == Split(Authorization, " ")
        encoded == IF Len(parts) >= 2 THEN parts[2] ELSE <<"u", "n", "d", "e", "f", "i", "n", "e", "d">>
        buffer == atob(encoded)
        decoded == Normalize(Utf8Decode(buffer.bytes))
        index == IF \E i \in 1..Len(decoded) : decoded[i] = ":"
                 THEN (CHOOSE i \in 1..Len(decoded) :
                          decoded[i] = ":" /\ \A j \in (i + 1)..Len(decoded) : decoded[j] # ":") - 1
                 ELSE -1
    IN  IF ~buffer.ok THEN Throw(InvalidCharacterError)
        ELSE IF index = -1 \/ \E i \in 1..Len(decoded) : decoded[i] \in ControlChars
        THEN Throw(UnauthorizedException(<<"I", "n", "v", "a", "l", "i", "d", " ", "a", "u", "t", "h", "o", "r", "i", "z", "a", "t", "i", "o", "n", " ", "v", "a", "l", "u", "e", ".">>))
        ELSE Return([username |-> Substring(decoded, 0, index),
                     password |-> Substring(decoded, index + 1, Len(decoded))])

parseBasicAuthentication(req) ==
    LET Authorization == req.headers["Authorization"]
        parts == Split(Authorization, " ")
        \* a missing second part is undefined, which atob reads as "undefined"
        encoded == IF Len(parts) >= 2 THEN parts[2] ELSE <<"u", "n", "d", "e", "f", "i", "n", "e", "d">>
        buffer == atob(encoded)
        decoded == Normalize(Utf8Decode(buffer.bytes))
        index == IndexOf(decoded, ":")
    IN  IF ~buffer.ok THEN Throw(InvalidCharacterError)
        ELSE IF index = -1 \/ \E i \in 1..Len(decoded) : decoded[i] \in ControlChars
        THEN Throw(UnauthorizedException(<<"I", "n", "v", "a", "l", "i", "d", " ", "a", "u", "t", "h", "o", "r", "i", "z", "a", "t", "i", "o", "n", " ", "v", "a", "l", "u", "e", ".">>))
        ELSE Return([username |-> Substring(decoded, 0, index),
                     password |-> Substring(decoded, index + 1, Len(decoded))])

\* the checks made on the presence of a parameter, not on its value
parseSearchParams_PresenceOnly(req) ==
    LET hostname == SearchParamsGet(req, "hostname")
        ip == Or(SearchParamsGet(req, "ip"), SearchParamsGet(req, "myip"))
        zone == SearchParamsGet(req, "zone")
    IN  IF "hostname" \notin DOMAIN req.searchParams
        THEN Throw(BadRequestException(<<"Y", "o", "u", " ", "m", "u", "s", "t", " ", "s", "p", "e", "c", "i", "f", "y", " ", "a", " ", "h", "o", "s", "t", "n", "a", "m", "e">>))
        ELSE IF "ip" \notin DOMAIN req.searchParams
                /\ "myip" \notin DOMAIN req.searchParams
        THEN Throw(BadRequestException(<<"Y", "o", "u", " ", "m", "u", "s", "t", " ", "s", "p", "e", "c", "i", "f", "y", " ", "a", "n", " ", "i", "p", " ", "a", "d", "d", "r", "e", "s", "s">>))
        ELSE IF "zone" \notin DOMAIN req.searchParams
        THEN Throw(BadRequestException(<<"Y", "o", "u", " ", "m", "u", "s", "t", " ", "s", "p", "e", "c", "i", "f", "y", " ", "a", " ", "z", "o", "n", "e", " ", "n", "a", "m", "e">>))
        ELSE Return([hostname |-> hostname, ip |-> ip, zoneName |-> zone])

\* the alias myip read before ip
parseSearchParams_MyipFirst(req) ==
    LET hostname == SearchParamsGet(req, "hostname")
        ip == Or(SearchParamsGet(req, "myip"), SearchParamsGet(req, "ip"))
        zone == SearchParamsGet(req, "zone")
    IN  IF hostname = <<>>
        THEN Throw(BadRequestException(<<"Y", "o", "u", " ", "m", "u", "s", "t", " ", "s", "p", "e", "c", "i", "f", "y", " ", "a", " ", "h", "o", "s", "t", "n", "a", "m", "e">>))
        ELSE IF ip = <<>>
        THEN Throw(BadRequestException(<<"Y", "o", "u", " ", "m", "u", "s", "t", " ", "s", "p", "e", "c", "i", "f", "y", " ", "a", "n", " ", "i", "p", " ", "a", "d", "d", "r", "e", "s", "s">>))
        ELSE IF zone = <<>>
        THEN Throw(BadRequestException(<<"Y", "o", "u", " ", "m", "u", "s", "t", " ", "s", "p", "e", "c", "i", "f", "y", " ", "a", " ", "z", "o", "n", "e", " ", "n", "a", "m", "e">>))
        ELSE Return([hostname |-> hostname, ip |-> ip, zoneName |-> zone])

\* the three checks made in the order zone, ip, hostname
parseSearchParams_ZoneFirst(req) ==
    LET hostname == SearchParamsGet(req, "hostname")
        ip == Or(SearchParamsGet(req, "ip"), SearchParamsGet(req, "myip"))
        zone == SearchParamsGet(req, "zone")
    IN  IF zone = <<>>
        THEN Throw(BadRequestException(<<"Y", "o", "u", " ", "m", "u", "s", "t", " ", "s", "p", "e", "c", "i", "f", "y", " ", "a", " ", "z", "o", "n", "e", " ", "n", "a", "m", "e">>))
        ELSE IF ip = <<>>
        THEN Throw(BadRequestException(<<"Y", "o", "u", " ", "m", "u", "s", "t", " ", "s", "p", "e", "c", "i", "f", "y", " ", "a", "n", " ", "i", "p", " ", "a", "d", "d", "r", "e", "s", "s">>))
        ELSE IF hostname = <<>>
        THEN Throw(BadRequestException(<<"Y", "o", "u", " ", "m", "u", "s", "t", " ", "s", "p", "e", "c", "i", "f", "y", " ", "a", " ", "h", "o", "s", "t", "n", "a", "m", "e">>))
        ELSE Return([hostname |-> hostname, ip |-> ip, zoneName |-> zone])

\* url.searchParams is always an object, so the first check never throws
parseSearchParams(req) ==
    LET hostname == SearchParamsGet(req, "hostname")
        ip == Or(SearchParamsGet(req, "ip"), SearchParamsGet(req, "myip"))
        zone == SearchParamsGet(req, "zone")
    IN  IF hostname = <<>>
        THEN Throw(BadRequestException(<<"Y", "o", "u", " ", "m", "u", "s", "t", " ", "s", "p", "e", "c", "i", "f", "y", " ", "a", " ", "h", "o", "s", "t", "n", "a", "m", "e">>))
        ELSE IF ip = <<>>
        THEN Throw(BadRequestException(<<"Y", "o", "u", " ", "m", "u", "s", "t", " ", "s", "p", "e", "c", "i", "f", "y", " ", "a", "n", " ", "i", "p", " ", "a", "d", "d", "r", "e", "s", "s">>))
        ELSE IF zone = <<>>
        THEN Throw(BadRequestException(<<"Y", "o", "u", " ", "m", "u", "s", "t", " ", "s", "p", "e", "c", "i", "f", "y", " ", "a", " ", "z", "o", "n", "e", " ", "n", "a", "m", "e">>))
        ELSE Return([hostname |-> hostname, ip |-> ip, zoneName |-> zone])

---------------------------------------------------------------------------
(* handleRequest up to its first await *)

\* a provider operation invoked through the client built from clientOptions
Call(op, clientOptions, args) ==
    [op |-> op, client |-> clientOptions, args |-> args]

\* a client kept from the first request that built one and used again
Await_SharedClient(updateRecordRequest, clientOptions) ==
    LET built == {frame[r].clientOptions :
                     r \in {x \in DOMAIN frame : "clientOptions" \in DOMAIN frame[x]}}
        client == IF built = {} THEN clientOptions ELSE CHOOSE c \in built : TRUE
    IN  [kind |-> "await",
         frame |-> [hostname |-> updateRecordRequest.hostname,
                    ip |-> updateRecordRequest.ip,
                    zoneName |-> updateRecordRequest.zoneName,
                    clientOptions |-> client],
         call |-> Call("user.tokens.verify", client, <<>>)]

\* updateDNSRecord entered: the client is built and verify() is awaited
Await(updateRecordRequest, clientOptions) ==
    [kind |-> "await",
     frame |-> [hostname |-> updateRecordRequest.hostname,
                ip |-> updateRecordRequest.ip,
                zoneName |-> updateRecordRequest.zoneName,
                clientOptions |-> clientOptions],
     call |-> Call("user.tokens.verify", clientOptions, <<>>)]

\* a guard that trusts the URL scheme alone
insecureTransport_SchemeOnly(req) == "https:" # req.protocol

\* line 18: 'https:' !== protocol || 'https' !== headers.get('x-forwarded-proto')
insecureTransport(req) ==
    \/ "https:" # req.protocol
    \/ ~HeadersHas(req, "x-forwarded-proto")
    \/ "https" # req.headers["x-forwarded-proto"]

\* the query parameters validated before the credentials are parsed
handleRequest_ParamsFirst(req) ==
    IF insecureTransport(req)
    THEN Throw(BadRequestException(<<"P", "l", "e", "a", "s", "e", " ", "u", "s", "e", " ", "a", " ", "H", "T", "T", "P", "S", " ", "c", "o", "n", "n", "e", "c", "t", "i", "o", "n", ".">>))
    ELSE IF req.pathname \in {"/nic/update", "/update"}
    THEN IF HeadersHas(req, "Authorization")
         THEN LET auth == parseBasicAuthentication(req)
                  updateRecordRequest == parseSearchParams(req)
              IN  IF updateRecordRequest.kind = "throw"
                  THEN updateRecordRequest
                  ELSE IF auth.kind = "throw" THEN auth
                  ELSE Await(updateRecordRequest.value,
                             [apiEmail |-> auth.value.username,
                              apiToken |-> auth.value.password])
         ELSE Throw(UnauthorizedException(<<"P", "l", "e", "a", "s", "e", " ", "p", "r", "o", "v", "i", "d", "e", " ", "v", "a", "l", "i", "d", " ", "c", "r", "e", "d", "e", "n", "t", "i", "a", "l", "s", ".">>))
    ELSE IF req.pathname \in {"/favicon.ico", "/robots.txt"}
    THEN Return(NoContentResponse)
    ELSE Return(NotFoundResponse)

handleRequest(req) ==
    IF insecureTransport(req)
    THEN Throw(BadRequestException(<<"P", "l", "e", "a", "s", "e", " ", "u", "s", "e", " ", "a", " ", "H", "T", "T", "P", "S", " ", "c", "o", "n", "n", "e", "c", "t", "i", "o", "n", ".">>))
    ELSE IF req.pathname \in {"/nic/update", "/update"}
    THEN IF HeadersHas(req, "Authorization")
         THEN LET auth == parseBasicAuthentication(req)
                  updateRecordRequest == parseSearchParams(req)
              IN  IF auth.kind = "throw" THEN auth
                  ELSE IF updateRecordRequest.kind = "throw"
                  THEN updateRecordRequest
                  ELSE Await(updateRecordRequest.value,
                             [apiEmail |-> auth.value.username,
                              apiToken |-> auth.value.password])
         ELSE Throw(UnauthorizedException(<<"P", "l", "e", "a", "s", "e", " ", "p", "r", "o", "v", "i", "d", "e", " ", "v", "a", "l", "i", "d", " ", "c", "r", "e", "d", "e", "n", "t", "i", "a", "l", "s", ".">>))
    ELSE IF req.pathname \in {"/favicon.ico", "/robots.txt"}
    THEN Return(NoContentResponse)
    ELSE Return(NotFoundResponse)

---------------------------------------------------------------------------
(* updateDNSRecord after each await *)

\* what an awaited provider call settles to
Fulfilled(value) == [settled |-> "fulfilled", value |-> value]
Rejected(reason) == [settled |-> "rejected", reason |-> reason]

\* the handler goes on to await the next provider call
AwaitNext(f, call) == [kind |-> "await", frame |-> f, call |-> call]

\* a check that rejects the status 'disabled' only
TokenInactive_DisabledOnly(user) == user.status = "disabled"

\* user.status !== 'active'
TokenInactive(user) == user.status # "active"

\* lines 62-69: verify() settled; next is zones.list({ name: zoneName })
afterVerify(f, reply) ==
    IF reply.settled = "rejected" THEN Throw(reply.reason)
    ELSE IF TokenInactive(reply.value)
    THEN Throw(UnauthorizedException(<<"I", "n", "v", "a", "l", "i", "d", " ", "t", "o", "k", "e", "n", ".">>))
    ELSE AwaitNext(f, Call("zones.list", f.clientOptions, [name |-> f.zoneName]))

\* a lookup that takes the first of several zones
zoneLookupError_FirstOfMany(zones, zoneName) ==
    IF Len(zones) = 0
    THEN Throw(BadRequestException(
             <<"F", "a", "i", "l", "e", "d", " ", "t", "o", " ", "f", "i", "n", "d", " ", "z", "o", "n", "e", " ", "'">> \o zoneName \o <<"'">>))
    ELSE Return(zones[1])

\* lines 70-74: the error for a zone list that is not exactly one zone
zoneLookupError(zones, zoneName) ==
    IF Len(zones) > 1
    THEN Throw(BadRequestException(
             <<"F", "a", "i", "l", "e", "d", " ", "t", "o", " ", "f", "i", "n", "d", " ", "u", "n", "i", "q", "u", "e", " ", "z", "o", "n", "e", " ", "'">> \o zoneName \o <<"'">>))
    ELSE IF Len(zones) = 0
    THEN Throw(BadRequestException(
             <<"F", "a", "i", "l", "e", "d", " ", "t", "o", " ", "f", "i", "n", "d", " ", "z", "o", "n", "e", " ", "'">> \o zoneName \o <<"'">>))
    ELSE Return(zones[1])

\* a record lookup issued with the zone name in place of the hostname
afterZonesList_ByZoneName(f, reply) ==
    IF reply.settled = "rejected" THEN Throw(reply.reason)
    ELSE LET zone == zoneLookupError(reply.value.result, f.zoneName)
         IN  IF zone.kind = "throw" THEN zone
             ELSE AwaitNext(("zone" :> zone.value) @@ f,
                            Call("dns.records.list", f.clientOptions,
                                 [zone_id |-> zone.value.id, name |-> f.zoneName]))

\* lines 69-83: zones.list settled; next is dns.records.list
afterZonesList(f, reply) ==
    IF reply.settled = "rejected" THEN Throw(reply.reason)
    ELSE LET zone == zoneLookupError(reply.value.result, f.zoneName)
         IN  IF zone.kind = "throw" THEN zone
             ELSE AwaitNext(("zone" :> zone.value) @@ f,
                            Call("dns.records.list", f.clientOptions,
                                 [zone_id |-> zone.value.id, name |-> f.hostname]))

\* a lookup that takes the first of several records
recordLookupError_FirstOfMany(records, hostname) ==
    IF Len(records) = 0 \/ "id" \notin DOMAIN records[1]
    THEN Throw(BadRequestException(
             <<"F", "a", "i", "l", "e", "d", " ", "t", "o", " ", "f", "i", "n", "d", " ", "D", "N", "S", " ", "r", "e", "c", "o", "r", "d", " ", "'">> \o hostname \o <<"'">>))
    ELSE Return(records[1])

\* lines 84-88: the error for a record list that is not exactly one record
\* with an id
recordLookupError(records, hostname) ==
    IF Len(records) > 1
    THEN Throw(BadRequestException(
             <<"F", "a", "i", "l", "e", "d", " ", "t", "o", " ", "f", "i", "n", "d", " ", "u", "n", "i", "q", "u", "e", " ", "D", "N", "S", " ", "r", "e", "c", "o", "r", "d", " ", "'">> \o hostname \o <<"'">>))
    ELSE IF Len(records) = 0 \/ "id" \notin DOMAIN records[1]
    THEN Throw(BadRequestException(
             <<"F", "a", "i", "l", "e", "d", " ", "t", "o", " ", "f", "i", "n", "d", " ", "D", "N", "S", " ", "r", "e", "c", "o", "r", "d", " ", "'">> \o hostname \o <<"'">>))
    ELSE Return(records[1])

\* the record taken without looking at its id: an id that is undefined goes
\* to the edit as it is
afterRecordsList_UndefinedId(f, reply) ==
    IF reply.settled = "rejected" THEN Throw(reply.reason)
    ELSE LET records == reply.value.result
         IN  IF Len(records) > 1
             THEN Throw(BadRequestException(
                      <<"F", "a", "i", "l", "e", "d", " ", "t", "o", " ", "f", "i", "n", "d", " ", "u", "n", "i", "q", "u", "e", " ", "D", "N", "S", " ", "r", "e", "c", "o", "r", "d", " ", "'">> \o f.hostname \o <<"'">>))
             ELSE IF Len(records) = 0
             THEN Throw(BadRequestException(
                      <<"F", "a", "i", "l", "e", "d", " ", "t", "o", " ", "f", "i", "n", "d", " ", "D", "N", "S", " ", "r", "e", "c", "o", "r", "d", " ", "'">> \o f.hostname \o <<"'">>))
             ELSE AwaitNext(("record" :> records[1]) @@ f,
                            Call("dns.records.edit", f.clientOptions,
                                 [id |-> IF "id" \in DOMAIN records[1]
                                         THEN records[1].id ELSE <<"u", "n", "d", "e", "f", "i", "n", "e", "d">>,
                                  zone_id |-> f.zone.id,
                                  content |-> f.ip]))

\* lines 80-97: dns.records.list settled; next is dns.records.edit
afterRecordsList(f, reply) ==
    IF reply.settled = "rejected" THEN Throw(reply.reason)
    ELSE LET record == recordLookupError(reply.value.result, f.hostname)
         IN  IF record.kind = "throw" THEN record
             ELSE AwaitNext(("record" :> record.value) @@ f,
                            Call("dns.records.edit", f.clientOptions,
                                 [id |-> record.value.id,
                                  zone_id |-> f.zone.id,
                                  content |-> f.ip]))

\* an edit that is invoked once more when it fails
afterRecordsEdit_Retry(f, reply) ==
    IF reply.settled = "rejected"
    THEN AwaitNext(f, Call("dns.records.edit", f.clientOptions,
                           [id |-> f.record.id, zone_id |-> f.zone.id,
                            content |-> f.ip]))
    ELSE Return(GoodResponse)

\* a worker that remembers the addresses it has set and answers "nochg"
\* to an update that repeats one
afterRecordsEdit_NoChange(f, reply) ==
    IF reply.settled = "rejected" THEN Throw(reply.reason)
    ELSE IF \E r \in DOMAIN response :
                /\ "status" \in DOMAIN response[r]
                /\ response[r].status = 200
                /\ frame[r].hostname = f.hostname
                /\ frame[r].ip = f.ip
    THEN Return([GoodResponse EXCEPT !.body = <<"n", "o", "c", "h", "g">>])
    ELSE Return(GoodResponse)

\* lines 94-107: dns.records.edit settled
afterRecordsEdit(f, reply) ==
    IF reply.settled = "rejected" THEN Throw(reply.reason)
    ELSE Return(GoodResponse)

---------------------------------------------------------------------------
(* The requests and the provider's answers the model draws from *)

\* the most zones or records one provider lookup returns
MaxMatches == 2

\* the requests in flight
Reqs == {1, 2}

\* a slot that holds nothing yet
None == [none |-> TRUE]

NoFields == [name \in {} |-> <<>>]

\* a header or query parameter that is absent or has one of the values
Optional(name, values) == {NoFields} \cup {name :> v : v \in values}

\* "Basic " + btoa(credentials)
Basic(credentials) == <<"B", "a", "s", "i", "c", " ">> \o btoa(credentials)

\* decoded values that parse: a plain pair, a secret with colons, an empty
\* identity, a second account, e + combining acute (UTF-8 0xCC 0x81), and
\* a pair behind a byte-order mark (UTF-8 0xEF 0xBB 0xBF)
GoodCredentials ==
    {<<"u", "@", "x", ".", "i", "o", ":", "s", "3", "c", "r", "e", "t">>, <<"u", "@", "x", ".", "i", "o", ":", "p", "@", "s", "s", ":", "w", "o", "r", "d">>, <<":", "s", "3", "c", "r", "e", "t">>, <<"v", "@", "y", ".", "i", "o", ":", "t", "0", "k", "e", "n">>,
     <<"e", CharOf(204), CharOf(129), ":", "p">>,
     <<CharOf(239), CharOf(187), CharOf(191), "b", ":", "p">>}

\* decoded values that do not: no colon, a control character (0x01, 0x7F)
BadCredentials ==
    {<<"n", "o", "c", "o", "l", "o", "n">>, <<"u", CharOf(1), ":", "p">>, <<"u", ":", "p", CharOf(127)>>}

AuthorizationValues ==
    {Basic(c) : c \in GoodCredentials \cup BadCredentials}
    \cup {<<"B", "a", "s", "i", "c">>,                                  \* no second part
          <<"B", "a", "s", "i", "c", " ", "!", "!", "!", "!">>,                             \* not base64
          <<"B", "a", "s", "i", "c", " ", "d", "T", "p", "w", "Y">>,                            \* length 5: not base64
          <<"B", "e", "a", "r", "e", "r", " ">> \o btoa(<<"u", "@", "x", ".", "i", "o", ":", "s", "3", "c", "r", "e", "t">>),   \* another scheme word
          <<"B", "a", "s", "i", "c", " ", " ">> \o btoa(<<"u", "@", "x", ".", "i", "o", ":", "s", "3", "c", "r", "e", "t">>)}   \* two spaces

SearchParams ==
    {h @@ i @@ m @@ z :
        h \in Optional("hostname", {<<>>, <<"d", "n", "s", ".", "e", "x", "a", "m", "p", "l", "e", ".", "c", "o", "m">>}),
        i \in Optional("ip", {<<>>, <<"1", ".", "2", ".", "3", ".", "4">>, <<"n", "o", "t", " ", "a", "n", " ", "a", "d", "d", "r", "e", "s", "s">>}),
        m \in Optional("myip", {<<"5", ".", "6", ".", "7", ".", "8">>}),
        z \in Optional("zone", {<<>>, <<"e", "x", "a", "m", "p", "l", "e", ".", "c", "o", "m">>, <<"z", "U+246", "n", "e", ".", "e", "x", "a", "m", "p", "l", "e">>})}

Requests ==
    {[protocol |-> p, pathname |-> path, headers |-> x @@ a, searchParams |-> s] :
        p \in {"https:", "http:"},
        path \in {"/update", "/nic/update", "/favicon.ico", "/robots.txt", "/unknown"},
        x \in Optional("x-forwarded-proto", {"https", "http", "HTTPS"}),
        a \in Optional("Authorization", AuthorizationValues),
        s \in SearchParams}

\* new Error(message): a message and a stack, no status
Error(message) ==
    [status |-> 0, statusText |-> <<>>, message |-> message,
     stack |-> <<"E", "r", "r", "o", "r", ":", " ">> \o message \o <<CharOf(10)>> \o <<" ", " ", " ", " ", "a", "t", " ", "f", "e", "t", "c", "h">>]

\* what a provider call may throw: errors with a message, an error without
\* one, a bare object, and an API error carrying an HTTP status
ProviderErrors ==
    {Error(<<"U", "n", "k", "n", "o", "w", "n", " ", "e", "r", "r", "o", "r">>),
     Error(<<"C", "o", "n", "n", "e", "c", "t", "i", "o", "n", " ", "e", "r", "r", "o", "r", ".">>),
     [Error(<<>>) EXCEPT !.stack = <<"E", "r", "r", "o", "r">> \o <<CharOf(10)>> \o <<" ", " ", " ", " ", "a", "t", " ", "f", "e", "t", "c", "h">>],
     [status |-> 0, statusText |-> <<>>, message |-> <<>>, stack |-> <<>>],
     [Error(<<"4", "0", "3", " ", "F", "o", "r", "b", "i", "d", "d", "e", "n">>) EXCEPT !.status = 403]}

Failures == {Rejected(e) : e \in ProviderErrors}

\* every sequence over S of length at most n
SeqsUpTo(S, n) == UNION {[1..k -> S] : k \in 0..n}

VerifyReplies ==
    {Fulfilled([status |-> s]) : s \in {"active", "disabled", "expired"}}
    \cup Failures

Zones ==
    {[id |-> <<"z", "o", "n", "e", "-", "i", "d">>, name |-> <<"e", "x", "a", "m", "p", "l", "e", ".", "c", "o", "m">>],
     [id |-> <<"z", "o", "n", "e", "-", "i", "d", "-", "2">>, name |-> <<"e", "x", "a", "m", "p", "l", "e", ".", "o", "r", "g">>]}

ZonesListReplies ==
    {Fulfilled([result |-> zs]) : zs \in SeqsUpTo(Zones, MaxMatches)} \cup Failures

\* records with an id, and one whose id is undefined
Records ==
    {[id |-> <<"r", "e", "c", "o", "r", "d", "-", "i", "d">>, name |-> <<"d", "n", "s", ".", "e", "x", "a", "m", "p", "l", "e", ".", "c", "o", "m">>],
     [id |-> <<"r", "e", "c", "o", "r", "d", "-", "i", "d", "-", "2">>, name |-> <<"d", "n", "s", ".", "e", "x", "a", "m", "p", "l", "e", ".", "c", "o", "m">>],
     [name |-> <<"d", "n", "s", ".", "e", "x", "a", "m", "p", "l", "e", ".", "c", "o", "m">>]}

RecordsListReplies ==
    {Fulfilled([result |-> rs]) : rs \in SeqsUpTo(Records, MaxMatches)} \cup Failures

RecordsEditReplies ==
    {Fulfilled([id |-> <<"r", "e", "c", "o", "r", "d", "-", "i", "d">>])} \cup Failures

---------------------------------------------------------------------------
(* The worker *)

Init ==
    /\ pc = [r \in Reqs |-> "idle"]
    /\ request = [r \in Reqs |-> None]
    /\ frame = [r \in Reqs |-> None]
    /\ calls = [r \in Reqs |-> <<>>]
    /\ replies = [r \in Reqs |-> <<>>]
    /\ response = [r \in Reqs |-> None]

\* the handler of r runs from `at` until it returns, throws into the catch
\* block of fetch, or awaits the next provider call at `next`
Run(r, out, next) ==
    IF out.kind = "await"
    THEN /\ pc' = [pc EXCEPT ![r] = next]
         /\ frame' = [frame EXCEPT ![r] = out.frame]
         /\ calls' = [calls EXCEPT ![r] = Append(@, out.call)]
         /\ UNCHANGED response
    ELSE /\ pc' = [pc EXCEPT ![r] = "done"]
         /\ response' = [response EXCEPT ![r] =
                IF out.kind = "return" THEN out.value ELSE ErrorResponse(out.err)]
         /\ UNCHANGED <<frame, calls>>

\* fetch(request): handleRequest runs to its first await or to a response
Fetch(r, requests) ==
    /\ pc[r] = "idle"
    /\ \E req \in requests :
        /\ request' = [request EXCEPT ![r] = req]
        /\ Run(r, handleRequest(req), "verify")
    /\ UNCHANGED replies

\* an awaited provider call settles and the handler runs on
Settle(r, reply, out, next) ==
    /\ replies' = [replies EXCEPT ![r] = Append(@, reply)]
    /\ Run(r, out, next)
    /\ UNCHANGED request

VerifySettled(r) ==
    /\ pc[r] = "verify"
    /\ \E reply \in VerifyReplies :
        Settle(r, reply, afterVerify(frame[r], reply), "zones")

ZonesListSettled(r) ==
    /\ pc[r] = "zones"
    /\ \E reply \in ZonesListReplies :
        Settle(r, reply, afterZonesList(frame[r], reply), "records")

RecordsListSettled(r) ==
    /\ pc[r] = "records"
    /\ \E reply \in RecordsListReplies :
        Settle(r, reply, afterRecordsList(frame[r], reply), "edit")

RecordsEditSettled(r) ==
    /\ pc[r] = "edit"
    /\ \E reply \in RecordsEditReplies :
        Settle(r, reply, afterRecordsEdit(frame[r], reply), "done")

\* one request, drawn from all of Requests
Next ==
    \/ Fetch(1, Requests)
    \/ VerifySettled(1)
    \/ ZonesListSettled(1)
    \/ RecordsListSettled(1)
    \/ RecordsEditSettled(1)

Spec == Init /\ [][Next]_vars

\* HTTPS update requests that reach the provider: two accounts, and two
\* updates that differ in hostname, address and zone
PairRequests ==
    {[protocol |-> "https:", pathname |-> "/update",
      headers |-> ("x-forwarded-proto" :> "https") @@ ("Authorization" :> Basic(c)),
      searchParams |-> ("hostname" :> u[1]) @@ ("ip" :> u[2]) @@ ("zone" :> u[3])] :
        c \in {<<"u", "@", "x", ".", "i", "o", ":", "s", "3", "c", "r", "e", "t">>, <<"v", "@", "y", ".", "i", "o", ":", "t", "0", "k", "e", "n">>},
        u \in {<<<<"d", "n", "s", ".", "e", "x", "a", "m", "p", "l", "e", ".", "c", "o", "m">>, <<"1", ".", "2", ".", "3", ".", "4">>, <<"e", "x", "a", "m", "p", "l", "e", ".", "c", "o", "m">>>>,
               <<<<"d", "n", "s", ".", "e", "x", "a", "m", "p", "l", "e", ".", "o", "r", "g">>, <<"5", ".", "6", ".", "7", ".", "8">>, <<"e", "x", "a", "m", "p", "l", "e", ".", "o", "r", "g">>>>}}

\* two requests in flight at once, their awaits settling in any order
NextPair ==
    \E r \in Reqs :
        \/ Fetch(r, PairRequests)
        \/ VerifySettled(r)
        \/ ZonesListSettled(r)
        \/ RecordsListSettled(r)
        \/ RecordsEditSettled(r)

SpecPair == Init /\ [][NextPair]_vars

---------------------------------------------------------------------------
(* Properties *)

\* fetch was called for r / has returned its Response for r
Received(r) == pc[r] # "idle"
Responded(r) == pc[r] = "done"

\* the request reads as an HTTPS one: scheme https and x-forwarded-proto https
Https(req) ==
    /\ req.protocol = "https:"
    /\ "x-forwarded-proto" \in DOMAIN req.headers
    /\ req.headers["x-forwarded-proto"] = "https"

UpdatePath(req) == req.pathname \in {"/update", "/nic/update"}

\* the query parameter is absent or empty
Missing(req, name) ==
    name \notin DOMAIN req.searchParams \/ req.searchParams[name] = <<>>

HeaderIs(resp, name, value) ==
    name \in DOMAIN resp.headers /\ resp.headers[name] = value

\* the characters whose UTF-8 encoding takes one byte / two bytes
OneByteChars == {CharOf(n) : n \in 0..127}
TwoByteChars == {CharOf(n) : n \in 128..2047}

\* the number of bytes of the UTF-8 encoding of a string
RECURSIVE Utf8Length(_)
Utf8Length(s) ==
    IF Len(s) = 0 THEN 0
    ELSE (IF s[1] \in OneByteChars THEN 1
          ELSE IF s[1] \in TwoByteChars THEN 2
          ELSE 3)
         + Utf8Length(Tail(s))

\* the operations invoked for r, in order
Ops(r) == [i \in 1..Len(calls[r]) |-> calls[r][i].op]

\* C1: a request whose scheme is not https or whose x-forwarded-proto is not
\* exactly "https" (or absent) is answered 400 with the HTTPS message and
\* without any provider call, whatever its path, credentials and parameters;
\* a request with both signals https never gets that message.
C1_TransportGuard ==
    \A r \in Reqs : Received(r) =>
        IF Https(request[r])
        THEN ~(Responded(r) /\ Includes(response[r].body, <<"H", "T", "T", "P", "S">>))
        ELSE /\ Responded(r)
             /\ response[r].status = 400
             /\ Includes(response[r].body, <<"H", "T", "T", "P", "S">>)
             /\ response[r].body = <<"P", "l", "e", "a", "s", "e", " ", "u", "s", "e", " ", "a", " ", "H", "T", "T", "P", "S", " ", "c", "o", "n", "n", "e", "c", "t", "i", "o", "n", ".">>
             /\ calls[r] = <<>>

\* an https URL with x-forwarded-proto http, on /update, with an
\* Authorization header that cannot be decoded and no parameters
C1_Witness ==
    /\ Responded(1)
    /\ request[1].protocol = "https:"
    /\ HeaderIs(request[1], "x-forwarded-proto", "http")
    /\ request[1].pathname = "/update"
    /\ HeaderIs(request[1], "Authorization", <<"B", "a", "s", "i", "c">>)
    /\ request[1].searchParams = NoFields
    /\ response[1].status = 400

\* every provider call of r succeeded: token active, one zone, one record
\* with an id, the edit fulfilled
AllSucceeded(r) ==
    /\ Len(replies[r]) = 4
    /\ \A i \in 1..4 : replies[r][i].settled = "fulfilled"
    /\ replies[r][1].value.status = "active"
    /\ Len(replies[r][2].value.result) = 1
    /\ Len(replies[r][3].value.result) = 1
    /\ "id" \in DOMAIN replies[r][3].value.result[1]

\* C2: when every provider call succeeds the response is 200 "good" with
\* Content-Type text/plain;charset=UTF-8 and Cache-Control no-store.
C2_SuccessResponse ==
    \A r \in Reqs : (Received(r) /\ UpdatePath(request[r]) /\ AllSucceeded(r)) =>
        /\ Responded(r)
        /\ response[r].status = 200
        /\ response[r].body = <<"g", "o", "o", "d">>
        /\ HeaderIs(response[r], "Content-Type", <<"t", "e", "x", "t", "/", "p", "l", "a", "i", "n", ";", "c", "h", "a", "r", "s", "e", "t", "=", "U", "T", "F", "-", "8">>)
        /\ HeaderIs(response[r], "Cache-Control", <<"n", "o", "-", "s", "t", "o", "r", "e">>)

C2_Witness ==
    /\ request[1] # None
    /\ request[1].pathname = "/nic/update"
    /\ AllSucceeded(1)
    /\ response[1].status = 200

\* the last provider call of r threw a value with a message and no status
UntypedFailure(r) ==
    /\ replies[r] # <<>>
    /\ LET last == replies[r][Len(replies[r])]
       IN  /\ last.settled = "rejected"
           /\ last.reason.status = 0
           /\ last.reason.message # <<>>

\* C3: a provider call failing with an untyped error (its own message, no
\* status) is answered 500 "Internal Server Error" with body "Unknown Error".
C3_UnknownError ==
    \A r \in Reqs : UntypedFailure(r) =>
        /\ Responded(r)
        /\ response[r].status = 500
        /\ response[r].statusText = <<"I", "n", "t", "e", "r", "n", "a", "l", " ", "S", "e", "r", "v", "e", "r", " ", "E", "r", "r", "o", "r">>
        /\ response[r].body = <<"U", "n", "k", "n", "o", "w", "n", " ", "E", "r", "r", "o", "r">>

\* two reply sequences that differ at most in the message and stack text of
\* the exceptions thrown
SameButDetail(a, b) ==
    /\ Len(a) = Len(b)
    /\ \A i \in 1..Len(a) :
        IF a[i].settled = "rejected"
        THEN /\ b[i].settled = "rejected"
             /\ a[i].reason.status = b[i].reason.status
             /\ a[i].reason.statusText = b[i].reason.statusText
        ELSE a[i] = b[i]

\* C4: two requests identical except for the message and stack text of the
\* untyped exception a provider call threw get the same status, statusText
\* and body.
C4_NoDetailInResponse ==
    \A r1, r2 \in Reqs :
        (/\ Responded(r1) /\ Responded(r2)
         /\ request[r1] = request[r2]
         /\ UntypedFailure(r1) /\ UntypedFailure(r2)
         /\ SameButDetail(replies[r1], replies[r2])) =>
            /\ response[r1].status = response[r2].status
            /\ response[r1].statusText = response[r2].statusText
            /\ response[r1].body = response[r2].body

\* the Authorization value is not of the form "Basic <base64>": another
\* scheme word, no second part, or a second part that atob rejects
NotBasicBase64(value) ==
    LET parts == Split(value, " ")
    IN  \/ parts[1] # <<"B", "a", "s", "i", "c">>
        \/ Len(parts) < 2
        \/ ~atob(parts[2]).ok

\* C5: an HTTPS update request whose Authorization header is not of the form
\* "Basic <base64>" is answered 401 "Invalid authorization value.".
C5_MalformedAuthorization ==
    \A r \in Reqs :
        (/\ Received(r) /\ Https(request[r]) /\ UpdatePath(request[r])
         /\ "Authorization" \in DOMAIN request[r].headers
         /\ NotBasicBase64(request[r].headers["Authorization"])) =>
            /\ Responded(r)
            /\ response[r].status = 401
            /\ response[r].body = <<"I", "n", "v", "a", "l", "i", "d", " ", "a", "u", "t", "h", "o", "r", "i", "z", "a", "t", "i", "o", "n", " ", "v", "a", "l", "u", "e", ".">>

\* C6: an HTTPS update request without an Authorization header is answered
\* 401 with a body containing "valid credentials", whatever its query
\* parameters, and no provider call is made.
C6_MissingAuthorization ==
    \A r \in Reqs :
        (/\ Received(r) /\ Https(request[r]) /\ UpdatePath(request[r])
         /\ "Authorization" \notin DOMAIN request[r].headers) =>
            /\ Responded(r)
            /\ response[r].status = 401
            /\ Includes(response[r].body, <<"v", "a", "l", "i", "d", " ", "c", "r", "e", "d", "e", "n", "t", "i", "a", "l", "s">>)
            /\ calls[r] = <<>>

\* no Authorization header and none of hostname, ip, myip, zone
C6_Witness ==
    /\ Responded(1)
    /\ Https(request[1]) /\ UpdatePath(request[1])
    /\ "Authorization" \notin DOMAIN request[1].headers
    /\ request[1].searchParams = NoFields
    /\ response[1].status = 401

\* the message of the first missing field, in the order hostname, ip, zone
FirstMissingMessage(req) ==
    IF Missing(req, "hostname") THEN <<"Y", "o", "u", " ", "m", "u", "s", "t", " ", "s", "p", "e", "c", "i", "f", "y", " ", "a", " ", "h", "o", "s", "t", "n", "a", "m", "e">>
    ELSE IF Missing(req, "ip") /\ Missing(req, "myip")
    THEN <<"Y", "o", "u", " ", "m", "u", "s", "t", " ", "s", "p", "e", "c", "i", "f", "y", " ", "a", "n", " ", "i", "p", " ", "a", "d", "d", "r", "e", "s", "s">>
    ELSE <<"Y", "o", "u", " ", "m", "u", "s", "t", " ", "s", "p", "e", "c", "i", "f", "y", " ", "a", " ", "z", "o", "n", "e", " ", "n", "a", "m", "e">>

SomeMissing(req) ==
    \/ Missing(req, "hostname")
    \/ Missing(req, "ip") /\ Missing(req, "myip")
    \/ Missing(req, "zone")

\* "Basic " followed by the base64 of credentials that parse
GoodAuthorizations == {Basic(c) : c \in GoodCredentials}

WellFormedBasic(req) ==
    /\ "Authorization" \in DOMAIN req.headers
    /\ req.headers["Authorization"] \in GoodAuthorizations

VerifyInactive(r) ==
    /\ Len(replies[r]) >= 1
    /\ replies[r][1].settled = "fulfilled"
    /\ replies[r][1].value.status # "active"

\* C8: when the provider's verification reports a status other than 'active'
\* the response is 401 "Invalid token." and neither the zone lookup, the
\* record lookup nor the record edit is invoked.
C8_InactiveToken ==
    \A r \in Reqs : VerifyInactive(r) =>
        /\ Responded(r)
        /\ response[r].status = 401
        /\ response[r].body = <<"I", "n", "v", "a", "l", "i", "d", " ", "t", "o", "k", "e", "n", ".">>
        /\ Ops(r) = <<"user.tokens.verify">>

C8_Witness ==
    /\ VerifyInactive(1)
    /\ replies[1][1].value.status = "expired"
    /\ response[1] # None
    /\ response[1].status = 401

\* zones.list answered r with n zones / dns.records.list with n records
ZonesFound(r, n) ==
    /\ Len(replies[r]) >= 2
    /\ replies[r][2].settled = "fulfilled"
    /\ Len(replies[r][2].value.result) = n

RecordsFound(r, n) ==
    /\ Len(replies[r]) >= 3
    /\ replies[r][3].settled = "fulfilled"
    /\ Len(replies[r][3].value.result) = n

\* C9: a zone lookup with no match is answered 400 "Failed to find zone
\* '<zone>'", one with two or more matches 400 "Failed to find unique zone
\* '<zone>'"; the record lookup and the record edit are not invoked.
C9_ZoneLookup ==
    \A r \in Reqs : \A n \in 0..(MaxMatches + 1) :
        (ZonesFound(r, n) /\ n # 1) =>
            /\ Responded(r)
            /\ response[r].status = 400
            /\ response[r].body =
                   (IF n = 0 THEN <<"F", "a", "i", "l", "e", "d", " ", "t", "o", " ", "f", "i", "n", "d", " ", "z", "o", "n", "e", " ", "'">>
                    ELSE <<"F", "a", "i", "l", "e", "d", " ", "t", "o", " ", "f", "i", "n", "d", " ", "u", "n", "i", "q", "u", "e", " ", "z", "o", "n", "e", " ", "'">>)
                   \o request[r].searchParams["zone"] \o <<"'">>
            /\ Ops(r) = <<"user.tokens.verify", "zones.list">>

C9_Witness ==
    /\ ZonesFound(1, 2)
    /\ response[1] # None
    /\ response[1].status = 400
    /\ Includes(response[1].body, <<"u", "n", "i", "q", "u", "e", " ", "z", "o", "n", "e", " ", "'", "e", "x", "a", "m", "p", "l", "e", ".", "c", "o", "m", "'">>)

\* C10: a record lookup with no match is answered 400 with a body containing
\* "Failed to find DNS record", one with two or more matches 400 with a body
\* containing "Failed to find unique DNS record"; the record edit is not
\* invoked.
C10_RecordLookup ==
    \A r \in Reqs : \A n \in 0..(MaxMatches + 1) :
        (RecordsFound(r, n) /\ n # 1) =>
            /\ Responded(r)
            /\ response[r].status = 400
            /\ Includes(response[r].body,
                        IF n = 0 THEN <<"F", "a", "i", "l", "e", "d", " ", "t", "o", " ", "f", "i", "n", "d", " ", "D", "N", "S", " ", "r", "e", "c", "o", "r", "d">>
                        ELSE <<"F", "a", "i", "l", "e", "d", " ", "t", "o", " ", "f", "i", "n", "d", " ", "u", "n", "i", "q", "u", "e", " ", "D", "N", "S", " ", "r", "e", "c", "o", "r", "d">>)
            /\ Ops(r) = <<"user.tokens.verify", "zones.list", "dns.records.list">>

C10_Witness ==
    /\ RecordsFound(1, 2)
    /\ response[1] # None
    /\ response[1].status = 400
    /\ Includes(response[1].body, <<"F", "a", "i", "l", "e", "d", " ", "t", "o", " ", "f", "i", "n", "d", " ", "u", "n", "i", "q", "u", "e", " ", "D", "N", "S", " ", "r", "e", "c", "o", "r", "d">>)

\* C11: an HTTPS request on a path other than /update, /nic/update,
\* /favicon.ico and /robots.txt is answered 404 with the body "Not Found.",
\* one on /favicon.ico or /robots.txt 204 with an empty body, whatever its
\* Authorization header and query string; no provider call is made.
C11_OtherPaths ==
    \A r \in Reqs :
        (Received(r) /\ Https(request[r]) /\ ~UpdatePath(request[r])) =>
            /\ Responded(r)
            /\ calls[r] = <<>>
            /\ IF request[r].pathname \in {"/favicon.ico", "/robots.txt"}
               THEN response[r].status = 204 /\ response[r].body = <<>>
               ELSE response[r].status = 404
                    /\ response[r].body = <<"N", "o", "t", " ", "F", "o", "u", "n", "d", ".">>

\* an unknown path with an Authorization header that cannot be decoded and
\* a query string without a hostname
C11_Witness ==
    /\ Responded(1)
    /\ Https(request[1])
    /\ request[1].pathname = "/unknown"
    /\ HeaderIs(request[1], "Authorization", <<"B", "a", "s", "i", "c", " ", "!", "!", "!", "!">>)
    /\ Missing(request[1], "hostname")
    /\ ~Missing(request[1], "zone")
    /\ response[1].status = 404

\* the code point of a character, among those below U+0800 and U+FEFF
CodePointOf(c) == CHOOSE n \in (0..2047) \cup {65279} : CharOf(n) = c

\* the UTF-8 encoding of a string, each byte as the character btoa takes
RECURSIVE Utf8Encode(_)
Utf8Encode(s) ==
    IF Len(s) = 0 THEN <<>>
    ELSE LET n == CodePointOf(s[1])
         IN  (IF n < 128 THEN <<CharOf(n)>>
              ELSE IF n < 2048
              THEN <<CharOf(192 + (n \div 64)), CharOf(128 + (n % 64))>>
              ELSE <<CharOf(224 + (n \div 4096)), CharOf(128 + ((n \div 64) % 64)),
                     CharOf(128 + (n % 64))>>)
             \o Utf8Encode(Tail(s))

\* identity and secret pairs: an identity without colon or control
\* character (one is empty, one is e + combining acute, one starts with
\* U+FEFF), a secret without control character (one holds colons)
CredentialPairs ==
    {<<<<"u", "@", "x", ".", "i", "o">>, <<"s", "3", "c", "r", "e", "t">>>>, <<<<"u", "@", "x", ".", "i", "o">>, <<"p", "@", "s", "s", ":", "w", "o", "r", "d">>>>,
     <<<<>>, <<"s", "3", "c", "r", "e", "t">>>>, <<<<"v", "@", "y", ".", "i", "o">>, <<"t", "0", "k", "e", "n">>>>,
     <<<<"e", CharOf(769)>>, <<"p">>>>,
     <<<<CharOf(65279), "b">>, <<"p">>>>}

\* "Basic " + base64(identity + ":" + secret) next to what parsing it is
\* expected to give, for every pair
ExpectedCredentials(Expect(_)) ==
    {[header |-> Basic(Utf8Encode(c[1] \o <<":">> \o c[2])),
      client |-> [apiEmail |-> Expect(c[1]), apiToken |-> Expect(c[2])]] :
        c \in CredentialPairs}

ExactCredentials == ExpectedCredentials(LAMBDA s : s)

\* the text without a leading byte-order mark, in NFC
Canonical(s) ==
    Normalize(IF Len(s) > 0 /\ s[1] = CharOf(65279) THEN Tail(s) ELSE s)

CanonicalCredentials == ExpectedCredentials(Canonical)

\* the request is an HTTPS update request with that Authorization value and
\* all of hostname, ip/myip and zone
SentWith(r, header) ==
    /\ Received(r) /\ Https(request[r]) /\ UpdatePath(request[r])
    /\ HeaderIs(request[r], "Authorization", header)
    /\ ~SomeMissing(request[r])

\* C12 as stated: parsing "Basic " + base64(identity + ":" + secret) yields
\* exactly that identity as the username and that secret as the password
\* (seen in the options the provider client is built from).
C12_ExactRoundTrip ==
    \A r \in Reqs : \A e \in ExactCredentials :
        SentWith(r, e.header) =>
            calls[r] # <<>> /\ calls[r][1].client = e.client

\* C12, amended: parsing "Basic " + base64(identity + ":" + secret) splits at
\* the first colon and yields the identity, without a leading byte-order
\* mark and in NFC, as the username and the secret in NFC as the password.
C12_FirstColonSplit ==
    \A r \in Reqs : \A e \in CanonicalCredentials :
        SentWith(r, e.header) =>
            calls[r] # <<>> /\ calls[r][1].client = e.client

\* an empty identity / a secret with colons / e + combining acute parsed to
\* U+00E9 / a byte-order mark dropped
C12_Witness ==
    /\ SentWith(1, Basic(<<"u", "@", "x", ".", "i", "o", ":", "p", "@", "s", "s", ":", "w", "o", "r", "d">>))
    /\ calls[1] # <<>>
    /\ calls[1][1].client = [apiEmail |-> <<"u", "@", "x", ".", "i", "o">>, apiToken |-> <<"p", "@", "s", "s", ":", "w", "o", "r", "d">>]

C12_WitnessEmptyIdentity ==
    /\ SentWith(1, Basic(<<":", "s", "3", "c", "r", "e", "t">>))
    /\ calls[1] # <<>>
    /\ calls[1][1].client = [apiEmail |-> <<>>, apiToken |-> <<"s", "3", "c", "r", "e", "t">>]

C12_WitnessComposed ==
    /\ SentWith(1, Basic(Utf8Encode(<<"e", CharOf(769), ":", "p">>)))
    /\ calls[1] # <<>>
    /\ calls[1][1].client = [apiEmail |-> <<CharOf(233)>>, apiToken |-> <<"p">>]

C12_WitnessByteOrderMark ==
    /\ SentWith(1, Basic(Utf8Encode(<<CharOf(65279), "b", ":", "p">>)))
    /\ calls[1] # <<>>
    /\ calls[1][1].client = [apiEmail |-> <<"b">>, apiToken |-> <<"p">>]

\* the Authorization values whose second part is base64 and decodes (UTF-8,
\* NFC) to a string with no colon or with an ASCII control character
\* (0x00-0x1F, 0x7F) somewhere
InvalidAuthorizations ==
    {value \in AuthorizationValues :
        LET parts == Split(value, " ")
        IN  /\ Len(parts) >= 2
            /\ atob(parts[2]).ok
            /\ LET decoded == Normalize(Utf8Decode(atob(parts[2]).bytes))
               IN  \/ \A i \in 1..Len(decoded) : decoded[i] # ":"
                   \/ \E i \in 1..Len(decoded) : \E n \in (0..31) \cup {127} :
                          decoded[i] = CharOf(n)}

\* C13: an HTTPS update request whose Authorization header decodes to a
\* string with no colon, or with an ASCII control character anywhere, is
\* answered 401 "Invalid authorization value." and no provider client is
\* built or called.
C13_InvalidCredentials ==
    \A r \in Reqs :
        (/\ Received(r) /\ Https(request[r]) /\ UpdatePath(request[r])
         /\ "Authorization" \in DOMAIN request[r].headers
         /\ request[r].headers["Authorization"] \in InvalidAuthorizations) =>
            /\ Responded(r)
            /\ response[r].status = 401
            /\ response[r].body = <<"I", "n", "v", "a", "l", "i", "d", " ", "a", "u", "t", "h", "o", "r", "i", "z", "a", "t", "i", "o", "n", " ", "v", "a", "l", "u", "e", ".">>
            /\ calls[r] = <<>>

\* a colon is there, DEL (0x7F) ends the secret, and no parameter is missing
C13_Witness ==
    /\ Responded(1)
    /\ Https(request[1]) /\ UpdatePath(request[1])
    /\ HeaderIs(request[1], "Authorization", Basic(<<"u", ":", "p", CharOf(127)>>))
    /\ ~SomeMissing(request[1])
    /\ response[1].status = 401
    /\ calls[1] = <<>>

\* no colon at all
C13_WitnessNoColon ==
    /\ Responded(1)
    /\ Https(request[1]) /\ UpdatePath(request[1])
    /\ HeaderIs(request[1], "Authorization", Basic(<<"n", "o", "c", "o", "l", "o", "n">>))
    /\ response[1].body = <<"I", "n", "v", "a", "l", "i", "d", " ", "a", "u", "t", "h", "o", "r", "i", "z", "a", "t", "i", "o", "n", " ", "v", "a", "l", "u", "e", ".">>

\* the record edit was invoked for r
EditInvoked(r) == Len(calls[r]) = 4

\* C14 as stated: the content sent to the record edit is the value of ip
\* whenever the ip parameter is present, and the value of myip only when ip
\* is not present.
C14_IpWheneverPresent ==
    \A r \in Reqs : EditInvoked(r) =>
        calls[r][4].args.content =
            (IF "ip" \in DOMAIN request[r].searchParams
             THEN request[r].searchParams["ip"]
             ELSE request[r].searchParams["myip"])

\* C14, amended: the content sent to the record edit is the value of ip
\* whenever ip is given with a non-empty value, and the value of myip when ip
\* is absent or empty; any non-empty value passes validation unchanged,
\* whatever its syntax.
C14_IpPrecedence ==
    \A r \in Reqs :
        /\ (/\ Received(r) /\ Https(request[r]) /\ UpdatePath(request[r])
            /\ WellFormedBasic(request[r])
            /\ ~SomeMissing(request[r])) =>
                /\ calls[r] # <<>>
                /\ frame[r].ip =
                       (IF ~Missing(request[r], "ip")
                        THEN request[r].searchParams["ip"]
                        ELSE request[r].searchParams["myip"])
        /\ EditInvoked(r) => calls[r][4].args.content = frame[r].ip

\* ip and myip both given with different values: the edit carries ip
C14_Witness ==
    /\ EditInvoked(1)
    /\ ~Missing(request[1], "ip") /\ ~Missing(request[1], "myip")
    /\ request[1].searchParams["ip"] # request[1].searchParams["myip"]
    /\ calls[1][4].args.content = request[1].searchParams["ip"]

\* only myip given / ip given and empty / an ip that is no address
C14_WitnessMyipOnly ==
    /\ EditInvoked(1)
    /\ "ip" \notin DOMAIN request[1].searchParams
    /\ calls[1][4].args.content = <<"5", ".", "6", ".", "7", ".", "8">>

C14_WitnessEmptyIp ==
    /\ EditInvoked(1)
    /\ "ip" \in DOMAIN request[1].searchParams
    /\ request[1].searchParams["ip"] = <<>>
    /\ calls[1][4].args.content = <<"5", ".", "6", ".", "7", ".", "8">>

C14_WitnessNoSyntaxCheck ==
    /\ EditInvoked(1)
    /\ calls[1][4].args.content = <<"n", "o", "t", " ", "a", "n", " ", "a", "d", "d", "r", "e", "s", "s">>

\* the response of r was built from an UnauthorizedException or a
\* BadRequestException
TypedError(r) == Responded(r) /\ response[r].status \in {400, 401}

\* C15: every response built from a typed error carries the error's status
\* and statusText, the error's message as body, Content-Type
\* text/plain;charset=UTF-8, Cache-Control no-store, X-Content-Type-Options
\* nosniff, X-Frame-Options DENY, a Strict-Transport-Security header with
\* max-age, includeSubDomains and preload, and a Content-Length equal to the
\* length of the body in bytes.
C15_TypedErrorResponse ==
    \A r \in Reqs : TypedError(r) =>
        /\ response[r].statusText =
               (IF response[r].status = 400 THEN <<"B", "a", "d", " ", "R", "e", "q", "u", "e", "s", "t">>
                ELSE <<"U", "n", "a", "u", "t", "h", "o", "r", "i", "z", "e", "d">>)
        /\ HeaderIs(response[r], "Content-Type", <<"t", "e", "x", "t", "/", "p", "l", "a", "i", "n", ";", "c", "h", "a", "r", "s", "e", "t", "=", "U", "T", "F", "-", "8">>)
        /\ HeaderIs(response[r], "Cache-Control", <<"n", "o", "-", "s", "t", "o", "r", "e">>)
        /\ HeaderIs(response[r], "X-Content-Type-Options", <<"n", "o", "s", "n", "i", "f", "f">>)
        /\ HeaderIs(response[r], "X-Frame-Options", <<"D", "E", "N", "Y">>)
        /\ "Strict-Transport-Security" \in DOMAIN response[r].headers
        /\ \A part \in {<<"m", "a", "x", "-", "a", "g", "e", "=">>, <<"i", "n", "c", "l", "u", "d", "e", "S", "u", "b", "D", "o", "m", "a", "i", "n", "s">>, <<"p", "r", "e", "l", "o", "a", "d">>} :
               Includes(response[r].headers["Strict-Transport-Security"], part)
        /\ HeaderIs(response[r], "Content-Length", Utf8Length(response[r].body))

\* the same without the Content-Length: what holds of every typed error
C15_TypedErrorButLength ==
    \A r \in Reqs : TypedError(r) =>
        /\ response[r].statusText =
               (IF response[r].status = 400 THEN <<"B", "a", "d", " ", "R", "e", "q", "u", "e", "s", "t">>
                ELSE <<"U", "n", "a", "u", "t", "h", "o", "r", "i", "z", "e", "d">>)
        /\ HeaderIs(response[r], "Content-Type", <<"t", "e", "x", "t", "/", "p", "l", "a", "i", "n", ";", "c", "h", "a", "r", "s", "e", "t", "=", "U", "T", "F", "-", "8">>)
        /\ HeaderIs(response[r], "Cache-Control", <<"n", "o", "-", "s", "t", "o", "r", "e">>)
        /\ HeaderIs(response[r], "X-Content-Type-Options", <<"n", "o", "s", "n", "i", "f", "f">>)
        /\ HeaderIs(response[r], "X-Frame-Options", <<"D", "E", "N", "Y">>)
        /\ HeaderIs(response[r], "Strict-Transport-Security",
                    <<"m", "a", "x", "-", "a", "g", "e", "=", "6", "3", "0", "7", "2", "0", "0", "0", ";", " ", "i", "n", "c", "l", "u", "d", "e", "S", "u", "b", "D", "o", "m", "a", "i", "n", "s", ";", " ", "p", "r", "e", "l", "o", "a", "d">>)
        /\ (\A i \in 1..Len(response[r].body) : response[r].body[i] \in OneByteChars)
               => HeaderIs(response[r], "Content-Length", Utf8Length(response[r].body))

\* C16: handling is stateless: two requests that are the same and to which
\* the provider has given the same answers so far are at the same point with
\* the same provider calls made and the same response, however their steps
\* interleave; a successful update repeated is answered 200 "good" both
\* times.
C16_Stateless ==
    \A r1, r2 \in Reqs :
        (/\ Received(r1) /\ Received(r2)
         /\ request[r1] = request[r2]
         /\ replies[r1] = replies[r2]) =>
            /\ pc[r1] = pc[r2]
            /\ calls[r1] = calls[r2]
            /\ response[r1] = response[r2]
            /\ (AllSucceeded(r1) /\ AllSucceeded(r2)) =>
                   /\ response[r1].status = 200 /\ response[r1].body = <<"g", "o", "o", "d">>
                   /\ response[r2].status = 200 /\ response[r2].body = <<"g", "o", "o", "d">>

\* the same update handled twice, both times with success
C16_Witness ==
    /\ Responded(1) /\ Responded(2)
    /\ request[1] = request[2]
    /\ AllSucceeded(1) /\ AllSucceeded(2)
    /\ response[1].body = <<"g", "o", "o", "d">> /\ response[2].body = <<"g", "o", "o", "d">>

\* the same update failing twice at the record lookup in the same way
C16_WitnessFailure ==
    /\ Responded(1) /\ Responded(2)
    /\ request[1] = request[2]
    /\ replies[1] = replies[2]
    /\ RecordsFound(1, 0)
    /\ response[1].status = 400 /\ response[2].status = 400

\* the provider operations in the order updateDNSRecord invokes them
ProviderOrder ==
    <<"user.tokens.verify", "zones.list", "dns.records.list", "dns.records.edit">>

\* the i-th provider call of r failed its step: it threw, or answered a
\* token that is not active, or other than exactly one zone or record
StepFailed(r, i) ==
    \/ replies[r][i].settled = "rejected"
    \/ i = 1 /\ replies[r][1].value.status # "active"
    \/ i \in {2, 3} /\ Len(replies[r][i].value.result) # 1

\* C17: the provider operations invoked for a request are a prefix of
\* verify-token, list-zones, list-records, edit-record (each at most once,
\* each after the answer to the one before); list-zones comes only after
\* verify answered 'active', list-records only after exactly one zone,
\* edit-record only after exactly one record; nothing is invoked after the
\* first step that fails.
C17_CallOrder ==
    \A r \in Reqs :
        LET n == Len(calls[r])
        IN  /\ n <= 4
            /\ Ops(r) = SubSeq(ProviderOrder, 1, n)
            /\ Len(replies[r]) <= n /\ n <= Len(replies[r]) + 1
            /\ n >= 2 => /\ replies[r][1].settled = "fulfilled"
                         /\ replies[r][1].value.status = "active"
            /\ n >= 3 => ZonesFound(r, 1)
            /\ n >= 4 => RecordsFound(r, 1)
            /\ \A i \in 1..Len(replies[r]) : StepFailed(r, i) =>
                   /\ n = i
                   /\ Responded(r)

\* all four operations invoked / stopped at a zone lookup that threw
C17_Witness ==
    /\ Ops(1) = ProviderOrder
    /\ AllSucceeded(1)

C17_WitnessStopped ==
    /\ Len(replies[1]) = 2
    /\ replies[1][2].settled = "rejected"
    /\ Ops(1) = <<"user.tokens.verify", "zones.list">>
    /\ Responded(1)

\* The reference pipeline: every stage gives a discriminated result, either
\* Ok with its value or Stop with the outcome (status and body) that ends
\* the pipeline; AndThen runs the next stage only after an Ok.
Ok(value) == [kind |-> "ok", value |-> value]
Stop(status, body) == [kind |-> "stop", status |-> status, body |-> body]

AndThen(result, NextStage(_)) ==
    IF result.kind = "stop" THEN result ELSE NextStage(result.value)

\* the one mapping from an error to an outcome
Mapped(err) == Stop(ErrorResponse(err).status, ErrorResponse(err).body)

\* the result of a stage the implementation writes with throw
Staged(out) == IF out.kind = "throw" THEN Mapped(out.err) ELSE Ok(out.value)

\* the result of a stage that awaits a provider call
Awaited(reply) ==
    IF reply.settled = "rejected" THEN Mapped(reply.reason) ELSE Ok(reply.value)

TransportStage(req) ==
    IF Https(req) THEN Ok(req)
    ELSE Stop(400, <<"P", "l", "e", "a", "s", "e", " ", "u", "s", "e", " ", "a", " ", "H", "T", "T", "P", "S", " ", "c", "o", "n", "n", "e", "c", "t", "i", "o", "n", ".">>)

RoutingStage(req) ==
    IF UpdatePath(req) THEN Ok(req)
    ELSE IF req.pathname \in {"/favicon.ico", "/robots.txt"} THEN Stop(204, <<>>)
    ELSE Stop(404, <<"N", "o", "t", " ", "F", "o", "u", "n", "d", ".">>)

PresenceStage(req) ==
    IF "Authorization" \in DOMAIN req.headers THEN Ok(req)
    ELSE Stop(401, <<"P", "l", "e", "a", "s", "e", " ", "p", "r", "o", "v", "i", "d", "e", " ", "v", "a", "l", "i", "d", " ", "c", "r", "e", "d", "e", "n", "t", "i", "a", "l", "s", ".">>)

VerifyStage(reply) ==
    AndThen(Awaited(reply), LAMBDA user :
        IF user.status = "active" THEN Ok(user)
        ELSE Stop(401, <<"I", "n", "v", "a", "l", "i", "d", " ", "t", "o", "k", "e", "n", ".">>))

ZoneStage(reply, zoneName) ==
    AndThen(Awaited(reply), LAMBDA zones :
        Staged(zoneLookupError(zones.result, zoneName)))

RecordStage(reply, hostname) ==
    AndThen(Awaited(reply), LAMBDA records :
        Staged(recordLookupError(records.result, hostname)))

\* the stages in the order transport guard, path routing, credential
\* presence, credential parsing, parameter validation, verify, resolve zone,
\* resolve record, edit record; reps are the provider's answers in order
ReferencePipeline(req, reps) ==
    AndThen(TransportStage(req), LAMBDA secure :
    AndThen(RoutingStage(req), LAMBDA routed :
    AndThen(PresenceStage(req), LAMBDA present :
    AndThen(Staged(parseBasicAuthentication(req)), LAMBDA credentials :
    AndThen(Staged(parseSearchParams(req)), LAMBDA update :
    AndThen(VerifyStage(reps[1]), LAMBDA user :
    AndThen(ZoneStage(reps[2], update.zoneName), LAMBDA zone :
    AndThen(RecordStage(reps[3], update.hostname), LAMBDA record :
    AndThen(Awaited(reps[4]), LAMBDA edited :
        Stop(200, <<"g", "o", "o", "d">>))))))))))

\* C18: the response to every request has the status and the body of the
\* first-failure-wins pipeline that runs the stages in the order transport
\* guard, path routing, credential presence, credential parsing, parameter
\* validation (hostname, ip, zone), verify credentials, resolve zone, resolve
\* record, edit record and ends with the outcome of the first stage that
\* fails, or success if none does.
C18_FirstFailureWins ==
    \A r \in Reqs : Responded(r) =>
        LET reference == ReferencePipeline(request[r], replies[r])
        IN  /\ response[r].status = reference.status
            /\ response[r].body = reference.body

\* credentials that do not parse and no hostname: the credential stage wins
C18_Witness ==
    /\ Responded(1)
    /\ Https(request[1]) /\ UpdatePath(request[1])
    /\ HeaderIs(request[1], "Authorization", Basic(<<"n", "o", "c", "o", "l", "o", "n">>))
    /\ Missing(request[1], "hostname")
    /\ response[1].status = 401
    /\ response[1].body = <<"I", "n", "v", "a", "l", "i", "d", " ", "a", "u", "t", "h", "o", "r", "i", "z", "a", "t", "i", "o", "n", " ", "v", "a", "l", "u", "e", ".">>

\* the record stage fails after verify and the zone stage passed
C18_WitnessRecordStage ==
    /\ Responded(1)
    /\ RecordsFound(1, 0)
    /\ response[1].status = 400
    /\ ReferencePipeline(request[1], replies[1]).status = 400

\* the Authorization values whose second part is base64 and decodes to an
\* identity, a colon and a secret, free of control characters
ParsingAuthorizations ==
    {value \in AuthorizationValues :
        LET parts == Split(value, " ")
        IN  /\ Len(parts) >= 2
            /\ atob(parts[2]).ok
            /\ value \notin InvalidAuthorizations}

ParameterMessages ==
    {<<"Y", "o", "u", " ", "m", "u", "s", "t", " ", "s", "p", "e", "c", "i", "f", "y", " ", "a", " ", "h", "o", "s", "t", "n", "a", "m", "e">>, <<"Y", "o", "u", " ", "m", "u", "s", "t", " ", "s", "p", "e", "c", "i", "f", "y", " ", "a", "n", " ", "i", "p", " ", "a", "d", "d", "r", "e", "s", "s">>,
     <<"Y", "o", "u", " ", "m", "u", "s", "t", " ", "s", "p", "e", "c", "i", "f", "y", " ", "a", " ", "z", "o", "n", "e", " ", "n", "a", "m", "e">>}

\* C19: a provider call is made for a request only if it passed the
\* transport check, is on /update or /nic/update, carried an Authorization
\* header that parsed into identity and secret (the pair the client is built
\* from), and had non-empty hostname, ip or myip, and zone; credentials are
\* parsed before the parameters are validated: a request failing both is
\* answered for its credentials.
C19_NoCallBeforeValidation ==
    \A r \in Reqs :
        /\ calls[r] # <<>> =>
            /\ Https(request[r])
            /\ UpdatePath(request[r])
            /\ "Authorization" \in DOMAIN request[r].headers
            /\ request[r].headers["Authorization"] \in ParsingAuthorizations
            /\ ~SomeMissing(request[r])
            /\ \A i \in 1..Len(calls[r]) :
                   /\ calls[r][i].client = calls[r][1].client
                   /\ DOMAIN calls[r][i].client = {"apiEmail", "apiToken"}
        /\ (/\ Received(r) /\ Https(request[r]) /\ UpdatePath(request[r])
            /\ "Authorization" \in DOMAIN request[r].headers
            /\ request[r].headers["Authorization"] \notin ParsingAuthorizations
            /\ SomeMissing(request[r])) =>
                /\ Responded(r)
                /\ response[r].body \notin ParameterMessages

\* the first provider call of a request with another scheme word (which the
\* parser does not look at) and myip alone
C19_Witness ==
    /\ Len(calls[1]) = 1
    /\ pc[1] = "verify"
    /\ HeaderIs(request[1], "Authorization", <<"B", "e", "a", "r", "e", "r", " ">> \o btoa(<<"u", "@", "x", ".", "i", "o", ":", "s", "3", "c", "r", "e", "t">>))
    /\ Missing(request[1], "ip")
    /\ calls[1][1].client = [apiEmail |-> <<"u", "@", "x", ".", "i", "o">>, apiToken |-> <<"s", "3", "c", "r", "e", "t">>]

\* credentials that cannot be decoded and no zone: answered for the former
C19_WitnessOrder ==
    /\ Responded(1)
    /\ Https(request[1]) /\ UpdatePath(request[1])
    /\ HeaderIs(request[1], "Authorization", <<"B", "a", "s", "i", "c", " ", "!", "!", "!", "!">>)
    /\ ~Missing(request[1], "hostname") /\ Missing(request[1], "zone")
    /\ calls[1] = <<>>

\* the one zone / the one record the lookups of r returned
ResolvedZone(r) == replies[r][2].value.result[1]
ResolvedRecord(r) == replies[r][3].value.result[1]

\* the ip value validation hands on: ip when not empty, else myip
ValidatedIp(req) ==
    IF ~Missing(req, "ip") THEN req.searchParams["ip"] ELSE req.searchParams["myip"]

\* C20: the zone lookup is issued with the request's zone name and nothing
\* else, the record lookup with the resolved zone's id and the request's
\* hostname, and the record edit targets the id of the single record
\* returned, in the zone of the single zone returned, with the validated ip
\* as content and no other field.
C20_CallArguments ==
    \A r \in Reqs :
        /\ Len(calls[r]) >= 2 =>
               calls[r][2].args = [name |-> request[r].searchParams["zone"]]
        /\ Len(calls[r]) >= 3 =>
               calls[r][3].args = [zone_id |-> ResolvedZone(r).id,
                                   name |-> request[r].searchParams["hostname"]]
        /\ Len(calls[r]) >= 4 =>
               calls[r][4].args = [id |-> ResolvedRecord(r).id,
                                   zone_id |-> ResolvedZone(r).id,
                                   content |-> ValidatedIp(request[r])]

\* the second zone and the second record were the ones found, and myip is
\* the address
C20_Witness ==
    /\ EditInvoked(1)
    /\ ResolvedZone(1).id = <<"z", "o", "n", "e", "-", "i", "d", "-", "2">>
    /\ ResolvedRecord(1).id = <<"r", "e", "c", "o", "r", "d", "-", "i", "d", "-", "2">>
    /\ Missing(request[1], "ip")
    /\ calls[1][4].args = [id |-> <<"r", "e", "c", "o", "r", "d", "-", "i", "d", "-", "2">>, zone_id |-> <<"z", "o", "n", "e", "-", "i", "d", "-", "2">>,
                           content |-> <<"5", ".", "6", ".", "7", ".", "8">>]

\* the statuses a response is said to have
DocumentedStatuses == {200, 204, 400, 401, 404, 500}

\* C21: every request gets exactly one response: a request whose handler
\* has ended has a Response and no other has one, a request is never left
\* without a step to take while its provider call can still settle, and the
\* status of the response is one of 200, 204, 400, 401, 404, 500.
C21_OneResponse ==
    \A r \in Reqs :
        /\ Responded(r) <=> response[r] # None
        /\ (Received(r) /\ ~Responded(r)) => Len(calls[r]) = Len(replies[r]) + 1
        /\ Responded(r) => response[r].status \in DocumentedStatuses

\* the same but for the set of statuses: one response, and a status that is
\* a documented one or the status the thrown value carried
C21_OneResponseAnyStatus ==
    \A r \in Reqs :
        /\ Responded(r) <=> response[r] # None
        /\ (Received(r) /\ ~Responded(r)) => Len(calls[r]) = Len(replies[r]) + 1
        /\ Responded(r) =>
               \/ response[r].status \in DocumentedStatuses
               \/ /\ replies[r] # <<>>
                  /\ replies[r][Len(replies[r])].settled = "rejected"
                  /\ response[r].status = replies[r][Len(replies[r])].reason.status

\* every provider call settles (returns or throws), so the handler goes on
SpecFair == Spec /\ WF_vars(Next)

\* a request received is answered
C21_Answered == Received(1) ~> Responded(1)

\* the query parameter is there with an empty value
GivenEmpty(req, name) ==
    name \in DOMAIN req.searchParams /\ req.searchParams[name] = <<>>

\* a required field is given empty and no alias fills it
SomeGivenEmpty(req) ==
    \/ GivenEmpty(req, "hostname")
    \/ GivenEmpty(req, "ip") /\ Missing(req, "myip")
    \/ GivenEmpty(req, "zone")

\* C22: the hostname, ip and zoneName handed to updateDNSRecord are all
\* non-empty and no provider call carries an empty name or content; a
\* parameter given with an empty value is answered like a missing one, with
\* the 400 of the first missing field and without any provider call.
C22_NonEmptyUpdateRequest ==
    \A r \in Reqs :
        /\ calls[r] # <<>> =>
            /\ frame[r].hostname # <<>>
            /\ frame[r].ip # <<>>
            /\ frame[r].zoneName # <<>>
            /\ \A i \in 1..Len(calls[r]) :
                   \A field \in DOMAIN calls[r][i].args : calls[r][i].args[field] # <<>>
        /\ (/\ Received(r) /\ Https(request[r]) /\ UpdatePath(request[r])
            /\ WellFormedBasic(request[r])
            /\ SomeGivenEmpty(request[r])) =>
                /\ Responded(r)
                /\ response[r].status = 400
                /\ response[r].body = FirstMissingMessage(request[r])
                /\ calls[r] = <<>>

\* hostname given and empty, ip and zone given: answered as without hostname
C22_Witness ==
    /\ Responded(1)
    /\ Https(request[1]) /\ UpdatePath(request[1])
    /\ WellFormedBasic(request[1])
    /\ GivenEmpty(request[1], "hostname")
    /\ ~Missing(request[1], "ip") /\ ~Missing(request[1], "zone")
    /\ response[1].body = <<"Y", "o", "u", " ", "m", "u", "s", "t", " ", "s", "p", "e", "c", "i", "f", "y", " ", "a", " ", "h", "o", "s", "t", "n", "a", "m", "e">>
    /\ calls[1] = <<>>

\* all four provider calls made, none with an empty field
C22_WitnessCalls ==
    /\ EditInvoked(1)
    /\ GivenEmpty(request[1], "ip")
    /\ frame[1].ip = <<"5", ".", "6", ".", "7", ".", "8">>

\* the two accounts of the concurrent requests: the Authorization value
\* next to the client options that belong to it, identity as API email and
\* secret as API token
Accounts ==
    {[header |-> Basic(<<"u", "@", "x", ".", "i", "o", ":", "s", "3", "c", "r", "e", "t">>),
      client |-> [apiEmail |-> <<"u", "@", "x", ".", "i", "o">>, apiToken |-> <<"s", "3", "c", "r", "e", "t">>]],
     [header |-> Basic(<<"v", "@", "y", ".", "i", "o", ":", "t", "0", "k", "e", "n">>),
      client |-> [apiEmail |-> <<"v", "@", "y", ".", "i", "o">>, apiToken |-> <<"t", "0", "k", "e", "n">>]]}

OwnClient(req) ==
    (CHOOSE a \in Accounts : a.header = req.headers["Authorization"]).client

\* the outcome of the provider stages for a request that reached them, from
\* its own hostname and zone name and the answers to its own calls
OwnOutcome(req, reps) ==
    AndThen(VerifyStage(reps[1]), LAMBDA user :
    AndThen(ZoneStage(reps[2], req.searchParams["zone"]), LAMBDA zone :
    AndThen(RecordStage(reps[3], req.searchParams["hostname"]), LAMBDA record :
    AndThen(Awaited(reps[4]), LAMBDA edited :
        Stop(200, <<"g", "o", "o", "d">>)))))

\* C23: with requests handled concurrently and their provider calls settling
\* in any order, every provider call of a request is made through a client
\* built from that request's own identity and secret, with that request's
\* own zone name, hostname and ip and the zone and record its own lookups
\* returned, and its response is the one its own request and the provider's
\* answers to its own calls determine.
C23_Isolation ==
    \A r \in Reqs :
        /\ Received(r) => calls[r] # <<>>
        /\ \A i \in 1..Len(calls[r]) : calls[r][i].client = OwnClient(request[r])
        /\ Len(calls[r]) >= 2 =>
               calls[r][2].args.name = request[r].searchParams["zone"]
        /\ Len(calls[r]) >= 3 =>
               /\ calls[r][3].args.zone_id = ResolvedZone(r).id
               /\ calls[r][3].args.name = request[r].searchParams["hostname"]
        /\ Len(calls[r]) >= 4 =>
               /\ calls[r][4].args.id = ResolvedRecord(r).id
               /\ calls[r][4].args.zone_id = ResolvedZone(r).id
               /\ calls[r][4].args.content = request[r].searchParams["ip"]
        /\ Responded(r) =>
               LET own == OwnOutcome(request[r], replies[r])
               IN  response[r].status = own.status /\ response[r].body = own.body

\* two requests of different accounts for different hostnames, zones and
\* addresses, both awaiting their record edit, their lookups having
\* returned different zones and records
C23_Witness ==
    /\ pc[1] = "edit" /\ pc[2] = "edit"
    /\ calls[1][1].client # calls[2][1].client
    /\ calls[1][2].args.name # calls[2][2].args.name
    /\ calls[1][4].args.id # calls[2][4].args.id
    /\ calls[1][4].args.zone_id # calls[2][4].args.zone_id
    /\ calls[1][4].args.content # calls[2][4].args.content

\* one answered with success while the other failed at its zone lookup
C23_WitnessMixed ==
    /\ Responded(1) /\ Responded(2)
    /\ response[1].status = 200
    /\ ZonesFound(2, 0)
    /\ response[2].status = 400

\* the record lookup of r returned exactly one record, whose id is undefined
OneRecordWithoutId(r) ==
    RecordsFound(r, 1) /\ "id" \notin DOMAIN replies[r][3].value.result[1]

\* C24: the record edit is never invoked with an undefined id: when the
\* record lookup returns exactly one record whose id is undefined the
\* request ends with 400 and the message "Failed to find DNS record
\* '<hostname>'", the one of an empty lookup, and the edit is not invoked.
C24_UndefinedRecordId ==
    \A r \in Reqs :
        /\ EditInvoked(r) =>
            /\ "id" \in DOMAIN ResolvedRecord(r)
            /\ calls[r][4].args.id = ResolvedRecord(r).id
        /\ OneRecordWithoutId(r) =>
            /\ Responded(r)
            /\ response[r].status = 400
            /\ response[r].body =
                   <<"F", "a", "i", "l", "e", "d", " ", "t", "o", " ", "f", "i", "n", "d", " ", "D", "N", "S", " ", "r", "e", "c", "o", "r", "d", " ", "'">>
                   \o request[r].searchParams["hostname"] \o <<"'">>
            /\ Ops(r) = <<"user.tokens.verify", "zones.list", "dns.records.list">>

C24_Witness ==
    /\ OneRecordWithoutId(1)
    /\ response[1] # None
    /\ response[1].body = <<"F", "a", "i", "l", "e", "d", " ", "t", "o", " ", "f", "i", "n", "d", " ", "D", "N", "S", " ", "r", "e", "c", "o", "r", "d", " ", "'", "d", "n", "s", ".", "e", "x", "a", "m", "p", "l", "e", ".", "c", "o", "m", "'">>
    /\ ~EditInvoked(1)

====
